---- MODULE Spec2Model ----
(***************************************************************************)
(* A model of the plan-to-dataflow compiler of declarative-dataflow and of *)
(* its CardinalityOne operator.                                            *)
(*                                                                         *)
(* Several specifications share the module:                                *)
(*   SpecCard  the cardinality_one operator (src/operators/mod.rs): the    *)
(*             batch unpacking closure and the state_machine fold;         *)
(*   SpecHistory  the same operator on the update history of one entity;   *)
(*   SpecPlan  Plan::implement (src/plan/*.rs) applied to bounded plans    *)
(*             over bounded contexts;                                      *)
(*   SpecIds   the counters behind next_id and gensym (src/plan/mod.rs);   *)
(*   SpecCsv   the operator built by CsvFile::source                       *)
(*             (src/sources/csv_file.rs), one instance per worker;         *)
(*   SpecCsvFair  the same, every requested activation being run.          *)
(* Each specification leaves the variables of the others at their initial  *)
(* value.                                                                  *)
(***************************************************************************)
EXTENDS Integers, Sequences, FiniteSets, TLC

VARIABLES
    \* ---- cardinality_one ----
    states,     \* the state_machine's per-key state: Option<V> per entity
    queue,      \* records emitted by the unpacking closure, not yet folded
    frontier,   \* lower bound of the times of the next batch
    nupd,       \* number of input updates handed to the operator so far
    acc,        \* output collection: diff accumulated per (e, v, t)
    lastIn,     \* the record the fold was last called with (NoUpdate: none yet)
    lastOut,    \* what that call of the fold emitted
    aborted,    \* the assert of the fold failed: the worker has panicked
    gIns,       \* history: gIns[e][t], an insertion of e at a time <= t was folded
    gRet,       \* history: gRet[e][t], a retraction of e at a time <= t was folded
    gLast,      \* history: gLast[e][t], the last fold of e at a time <= t was an insertion
    gPrev,      \* history: the value of the last record folded for e (0: none)
    gIn,        \* history: gIn[<<e, v>>], the input diffs of (e, v) folded so far, added up
    gOk,        \* history: no gIn[<<e, v>>] has been negative
    feed,       \* the input the operator is run on: its entities, its number of updates
    \* ---- Plan::implement ----
    ctx,        \* the ImplContext and the local arrangements
    plan,       \* the plan last compiled
    res,        \* what implement returned for it
    \* ---- next_id, gensym ----
    ID,         \* the static counter of next_id
    SYM,        \* the static counter of gensym
    issued,     \* history: the identifiers handed out so far
    \* ---- CsvFile::source ----
    file,       \* the file read, the schema and the number of workers
    source      \* per worker, the state captured by the operator's closure

cardVars == <<states, queue, frontier, nupd, acc, lastIn, lastOut, aborted,
              gIns, gRet, gLast, gPrev, gIn, gOk, feed>>
planVars == <<ctx, plan, res>>
idVars == <<ID, SYM, issued>>
csvVars == <<file, source>>
vars == <<cardVars, planVars, idVars, csvVars>>

(***************************************************************************)
(* Bounds                                                                  *)
(***************************************************************************)
MaxTime == 2
MaxUpdates == 3

Ent == {1, 2}
Val == {1, 2}
Times == 1..MaxTime
Diffs == {-1, 1, 2}
None == 0

RECURSIVE SumSet(_, _)
SumSet(S, f) ==
    IF S = {} THEN 0
    ELSE LET x == CHOOSE y \in S : TRUE IN f[x] + SumSet(S \ {x}, f)

(***************************************************************************)
(* cardinality_one: the unpacking closure                                  *)
(***************************************************************************)
\* An input update ((e, v), t, diff) of the arranged collection.
Update == [e : Ent, v : Val, t : Times, d : Diffs]

\* The tuples of a key left in the cursor's order, values first: no sort by
\* time.
BeforeCursorOrder(a, b) ==
    \/ a.e < b.e
    \/ a.e = b.e /\ a.v < b.v
    \/ a.e = b.e /\ a.v = b.v /\ a.t < b.t

\* The order in which the closure emits the tuples of one batch: keys in
\* cursor order, and per key sorted by time, the sort being stable over the
\* cursor's value order.
Before(a, b) ==
    \/ a.e < b.e
    \/ a.e = b.e /\ a.t < b.t
    \/ a.e = b.e /\ a.t = b.t /\ a.v < b.v

RECURSIVE SortBatch(_)
SortBatch(B) ==
    IF B = {} THEN <<>>
    ELSE LET m == CHOOSE x \in B : \A y \in B \ {x} : Before(x, y)
         IN <<m>> \o SortBatch(B \ {m})

\* A batch of the arrangement: consolidated, so no (e, v, t) occurs twice and
\* no diff is zero; its times lie in [lo, hi).
RECURSIVE BatchesOf(_, _)
BatchesOf(U, n) ==
    IF n = 0 THEN {{}}
    ELSE LET S == BatchesOf(U, n - 1)
         IN S \cup {b \cup {u} : b \in S, u \in U}

IsBatch(B) ==
    /\ B # {}
    /\ \A a, b \in B : (a.e = b.e /\ a.v = b.v /\ a.t = b.t) => a = b

(***************************************************************************)
(* cardinality_one: the fold of the state machine                          *)
(***************************************************************************)
Emit(e, v, t, d) == [e |-> e, v |-> v, t |-> t, d |-> d]
NoUpdate == Emit(0, 0, 0, 0)

\* Variants of the branches of the fold, each with one plausible slip.
\* No assert in the None branch: a retraction of a missing key is stored.
FoldNoneNoAssert(e, next_v, t, diff) ==
    [abort |-> FALSE, remove |-> FALSE, v |-> next_v,
     out |-> <<Emit(e, next_v, t, 1)>>]

\* The None branch passes the input diff on instead of emitting 1.
FoldNoneKeepDiff(e, next_v, t, diff) ==
    IF diff > 0
    THEN [abort |-> FALSE, remove |-> FALSE, v |-> next_v,
          out |-> <<Emit(e, next_v, t, diff)>>]
    ELSE [abort |-> TRUE, remove |-> FALSE, v |-> None, out |-> <<>>]

\* The overwrite forgets to retract the old value.
FoldSomePosNoRetract(e, next_v, t, old_v) ==
    [abort |-> FALSE, remove |-> FALSE, v |-> next_v,
     out |-> <<Emit(e, next_v, t, 1)>>]

\* The retraction clears the state but emits nothing.
FoldSomeNegSilent(e, t, old_v) ==
    [abort |-> FALSE, remove |-> TRUE, v |-> old_v, out |-> <<>>]

\* state None: assert!(diff > 0), store next_v, emit +(e, next_v).
FoldNone(e, next_v, t, diff) ==
    IF diff > 0
    THEN [abort |-> FALSE, remove |-> FALSE, v |-> next_v,
          out |-> <<Emit(e, next_v, t, 1)>>]
    ELSE [abort |-> TRUE, remove |-> FALSE, v |-> None, out |-> <<>>]

\* state Some(old_v), diff > 0: store next_v, emit -(e, old_v), +(e, next_v).
FoldSomePos(e, next_v, t, old_v) ==
    [abort |-> FALSE, remove |-> FALSE, v |-> next_v,
     out |-> <<Emit(e, old_v, t, -1), Emit(e, next_v, t, 1)>>]

\* state Some(old_v), diff <= 0: emit -(e, old_v), ask for the state's removal.
FoldSomeNeg(e, t, old_v) ==
    [abort |-> FALSE, remove |-> TRUE, v |-> old_v,
     out |-> <<Emit(e, old_v, t, -1)>>]

\* A retraction retracts the value it names, not the stored one.
FoldRetractNamed(e, next_v, t, diff, v) ==
    IF v = None THEN FoldNone(e, next_v, t, diff)
    ELSE IF diff > 0 THEN FoldSomePos(e, next_v, t, v)
    ELSE FoldSomeNeg(e, t, next_v)

Fold(e, next_v, t, diff, v) ==
    IF v = None THEN FoldNone(e, next_v, t, diff)
    ELSE IF diff > 0 THEN FoldSomePos(e, next_v, t, v)
    ELSE FoldSomeNeg(e, t, v)

\* as_collection: the diffs emitted for (e, v) at time t add up.
Emitted(out, e, v, t) ==
    SumSet({i \in 1..Len(out) : out[i].e = e /\ out[i].v = v /\ out[i].t = t},
           [i \in 1..Len(out) |-> out[i].d])

\* The output accumulated up to time t.
AccIn(a, e, v, t) == SumSet({s \in Times : s <= t}, [s \in Times |-> a[<<e, v, s>>]])
AccAt(e, v, t) == AccIn(acc, e, v, t)

(***************************************************************************)
(* cardinality_one: the state machine                                      *)
(***************************************************************************)
IdlePlan == [op |-> "None", vars |-> <<>>, aid |-> "", const |-> 0, kids |-> <<>>]
IdleRes == [status |-> "none"]
IdleCtx == [id |-> 0]

InitCardState ==
    /\ states = [e \in Ent |-> None]
    /\ queue = <<>>
    /\ frontier = 1
    /\ nupd = 0
    /\ acc = [k \in Ent \X Val \X Times |-> 0]
    /\ lastIn = NoUpdate
    /\ lastOut = <<>>
    /\ aborted = FALSE
    /\ gIns = [e \in Ent |-> [t \in Times |-> FALSE]]
    /\ gRet = [e \in Ent |-> [t \in Times |-> FALSE]]
    /\ gLast = [e \in Ent |-> [t \in Times |-> FALSE]]
    /\ gPrev = [e \in Ent |-> 0]
    /\ gIn = [k \in Ent \X Val |-> 0]
    /\ gOk = TRUE

\* Up to MaxUpdates updates of any entity.
InitCardVars ==
    /\ InitCardState
    /\ feed = [keys |-> Ent, updates |-> MaxUpdates]

InitPlanIdle ==
    /\ ctx = IdleCtx
    /\ plan = IdlePlan
    /\ res = IdleRes

\* The counters are machine words; the model keeps WordBits bits of them.
WordBits == 3
Word == 2 ^ WordBits

\* static ID: AtomicUsize = AtomicUsize::new(0)
IdInit == 0
\* static SYM: AtomicUsize = AtomicUsize::new(std::usize::MAX)
SymInit == Word - 1

\* No identifier handed out yet.
IdleIssued == [ids |-> <<>>, syms |-> <<>>, user |-> 0,
               idWrapped |-> FALSE, symWrapped |-> FALSE, caller |-> 0]

InitIdsIdle ==
    /\ ID = IdInit
    /\ SYM = SymInit
    /\ issued = IdleIssued

IdleFile == [records |-> 0, peers |-> 0, schema |-> 0]

InitCsvIdle ==
    /\ file = IdleFile
    /\ source = <<>>

InitCard == InitCardVars /\ InitPlanIdle /\ InitIdsIdle /\ InitCsvIdle

\* The unary closure receives one batch whose times lie in [frontier, upper)
\* and hands its tuples on, per key in time order.
Unpack ==
    /\ ~aborted
    /\ nupd < feed.updates
    /\ \E upper \in (frontier + 1)..(MaxTime + 1) :
         \E B \in BatchesOf({u \in Update : /\ u.e \in feed.keys
                                             /\ u.t >= frontier /\ u.t < upper},
                            feed.updates - nupd) :
            /\ IsBatch(B)
            /\ queue' = queue \o SortBatch(B)
            /\ nupd' = nupd + Cardinality(B)
            /\ frontier' = upper
    /\ UNCHANGED <<states, acc, lastIn, lastOut, aborted, gIns, gRet, gLast, gPrev,
                   gIn, gOk, feed>>
    /\ UNCHANGED <<planVars, idVars, csvVars>>

\* The state machine takes the next record and calls the fold on the state of
\* its key; a failed assert ends the worker.
StateMachine ==
    /\ ~aborted
    /\ queue # <<>>
    /\ LET u == Head(queue)
           r == Fold(u.e, u.v, u.t, u.d, states[u.e])
       IN /\ queue' = Tail(queue)
          /\ lastIn' = u
          /\ lastOut' = r.out
          /\ aborted' = r.abort
          /\ gIn' = [gIn EXCEPT ![<<u.e, u.v>>] = @ + u.d]
          /\ gOk' = (gOk /\ gIn[<<u.e, u.v>>] + u.d >= 0)
          /\ IF r.abort
             THEN UNCHANGED <<states, acc, gIns, gRet, gLast, gPrev>>
             ELSE /\ states' = [states EXCEPT ![u.e] = IF r.remove THEN None ELSE r.v]
                  /\ acc' = [k \in Ent \X Val \X Times |->
                                acc[k] + Emitted(r.out, k[1], k[2], k[3])]
                  /\ gIns' = [gIns EXCEPT ![u.e] =
                                [t \in Times |-> @[t] \/ (t >= u.t /\ u.d > 0)]]
                  /\ gRet' = [gRet EXCEPT ![u.e] =
                                [t \in Times |-> @[t] \/ (t >= u.t /\ u.d <= 0)]]
                  /\ gLast' = [gLast EXCEPT ![u.e] =
                                [t \in Times |-> IF t >= u.t THEN u.d > 0 ELSE @[t]]]
                  /\ gPrev' = [gPrev EXCEPT ![u.e] = u.v]
    /\ UNCHANGED <<frontier, nupd, feed>>
    /\ UNCHANGED <<planVars, idVars, csvVars>>

NextCard == Unpack \/ StateMachine

SpecCard == InitCard /\ [][NextCard]_vars

(***************************************************************************)
(* Claims about cardinality_one                                            *)
(***************************************************************************)
Rows(e, t) == {v \in Val : AccAt(e, v, t) # 0}
PositiveRows(e, t) == {v \in Val : AccAt(e, v, t) > 0}
EverRetracted(e) == gRet[e][MaxTime]
EverInserted(e) == gIns[e][MaxTime]

\* C1: at every timestamp the accumulated output holds, for every entity, at
\* most one pair (e, v) of non-zero multiplicity, and none of negative
\* multiplicity.
C1_Uniqueness ==
    \A e \in Ent, t \in Times :
        /\ \A v \in Val : AccAt(e, v, t) >= 0
        /\ Cardinality(Rows(e, t)) <= 1

\* An overwrite by another value has been folded.
C1_Witness ==
    /\ ~aborted
    /\ Len(lastOut) = 2
    /\ lastOut[1].v # lastOut[2].v

\* C2 as stated: exactly one positive row for e at t iff an insertion of e has
\* been applied by t and no retraction of e has been applied by t.
C2_Original ==
    \A e \in Ent, t \in Times :
        (Cardinality(PositiveRows(e, t)) = 1) <=> (gIns[e][t] /\ ~gRet[e][t])

\* C2 amended: exactly one positive row for e at t iff the last update of e
\* applied by t is an insertion (an insertion has been applied and no
\* retraction has been applied after the latest one).
C2_Presence ==
    \A e \in Ent, t \in Times :
        (Cardinality(PositiveRows(e, t)) = 1) <=> gLast[e][t]

\* An entity is inserted again after its retraction.
C2_Witness ==
    \E e \in Ent : EverRetracted(e) /\ gLast[e][MaxTime] /\ states[e] # None

\* C3: as long as an entity has received positive updates only, the first one
\* emits +(e, v1), every later one emits -(e, v(i-1)) then +(e, vi) at its own
\* time, and the accumulated output of the entity is {(e, vi)} with
\* multiplicity 1, whatever the input diff and also when vi = v(i-1).
C3_LastWriterWins ==
    [][IF queue = <<>> THEN TRUE
       ELSE (StateMachine /\ Head(queue).d > 0 /\ ~EverRetracted(Head(queue).e)) =>
          LET u == Head(queue)
          IN /\ lastOut' = IF gPrev[u.e] = 0
                           THEN <<Emit(u.e, u.v, u.t, 1)>>
                           ELSE <<Emit(u.e, gPrev[u.e], u.t, -1),
                                  Emit(u.e, u.v, u.t, 1)>>
             /\ \A v \in Val :
                   AccIn(acc', u.e, v, MaxTime) = IF v = u.v THEN 1 ELSE 0]_vars

\* The same value is written again, with an input diff of 2, to an entity
\* that has seen insertions only.
C3_Witness ==
    /\ lastIn.d = 2
    /\ ~EverRetracted(lastIn.e)
    /\ Len(lastOut) = 2
    /\ lastOut[1].v = lastOut[2].v

\* C4: an update of non-positive diff for an entity whose state is None
\* aborts the operator, and nothing is emitted or stored for it.
C4_RetractionOfMissingKey ==
    [][IF queue = <<>> THEN TRUE
       ELSE (StateMachine /\ Head(queue).d <= 0 /\ states[Head(queue).e] = None) =>
          /\ aborted'
          /\ lastOut' = <<>>
          /\ acc' = acc
          /\ states' = states]_vars

\* The operator aborted on the retraction of an entity whose state an earlier
\* retraction had cleared.
C4_Witness ==
    /\ aborted
    /\ lastIn.d < 0
    /\ EverRetracted(lastIn.e)

(***************************************************************************)
(* Plans, contexts and collections                                         *)
(***************************************************************************)
MaxTargets == 3

Var == {1, 2, 3}
Aid == {"a", "b"}
Value == {1, 2}
RuleName == {"q"}

InSeq(s, x) == \E i \in 1..Len(s) : s[i] = x
NoDup(s) == \A i, j \in 1..Len(s) : s[i] = s[j] => i = j
\* Iterator::position: the first offset of x in s.
Position(s, x) == CHOOSE i \in 1..Len(s) : s[i] = x /\ \A j \in 1..(i - 1) : s[j] # x
\* iter().filter(|x| !target_variables.contains(x))
Remainder(s, T) == SelectSeq(s, LAMBDA x : ~InSeq(T, x))

\* A collection, accumulated: a set of rows with their non-zero multiplicity.
Row(r, d) == [row |-> r, diff |-> d]
Rows2(C) == {r.row : r \in C}
Mult(C, x) == SumSet({r \in C : r.row = x}, [r \in C |-> r.diff])

\* map: the multiplicities of the rows that f sends to one row add up.
MapColl(C, f) ==
    LET img == {f[r.row] : r \in C}
        sum(x) == SumSet({r \in C : f[r.row] = x}, [r \in C |-> r.diff])
    IN {Row(x, sum(x)) : x \in {y \in img : sum(y) # 0}}

FilterColl(C, keep) == {r \in C : keep[r.row]}

\* concat
Concat(C, D) ==
    LET all == Rows2(C) \cup Rows2(D)
    IN {Row(x, Mult(C, x) + Mult(D, x)) : x \in {y \in all : Mult(C, y) + Mult(D, y) # 0}}

\* negate
NegateColl(C) == {Row(r.row, 0 - r.diff) : r \in C}

\* distinct: the rows of positive multiplicity, once each.
Distinct(C) == {Row(r.row, 1) : r \in {x \in C : x.diff > 0}}

\* join_core that gives a pair the multiplicity of its left row.
JoinCoreLeftDiff(L, R) ==
    LET pairs == {pr \in L \X R : pr[1].row[1] = pr[2].row[1]}
        out(pr) == <<pr[1].row[1], pr[1].row[2], pr[2].row[2]>>
        sum(x) == SumSet({pr \in pairs : out(pr) = x}, [pr \in pairs |-> pr[1].diff])
    IN {Row(x, sum(x)) : x \in {y \in {out(pr) : pr \in pairs} : sum(y) # 0}}

\* join_core over two arrangements, whose rows are <<key, val>>: the arguments
\* <<k, v1, v2>> of the result closure for every pair of equal key, the
\* multiplicities multiplied.
JoinCore(L, R) ==
    LET pairs == {pr \in L \X R : pr[1].row[1] = pr[2].row[1]}
        out(pr) == <<pr[1].row[1], pr[1].row[2], pr[2].row[2]>>
        sum(x) == SumSet({pr \in pairs : out(pr) = x},
                         [pr \in pairs |-> pr[1].diff * pr[2].diff])
    IN {Row(x, sum(x)) : x \in {y \in {out(pr) : pr \in pairs} : sum(y) # 0}}

\* Plans. Every plan is a record of one shape; the fields a variant does not
\* have are empty.
MkPlan(op, vs, a, c, ks) == [op |-> op, vars |-> vs, aid |-> a, const |-> c, kids |-> ks]
MatchA(e, a, v) == MkPlan("MatchA", <<e, v>>, a, 0, <<>>)
MatchEA(e, a, v) == MkPlan("MatchEA", <<v>>, a, e, <<>>)
MatchAV(e, a, v) == MkPlan("MatchAV", <<e>>, a, v, <<>>)
NameExpr(syms, name) == MkPlan("NameExpr", syms, name, 0, <<>>)
Project(T, p) == MkPlan("Project", T, "", 0, <<p>>)
Union(T, ps) == MkPlan("Union", T, "", 0, ps)
Negate(p) == MkPlan("Negate", <<>>, "", 0, <<p>>)
Join(T, l, r) == MkPlan("Join", T, "", 0, <<l, r>>)

\* What implement returns: a carrier with its shutdown handle, or an abort.
Abort(why) ==
    [status |-> "abort", reason |-> why, kind |-> "", variables |-> <<>>,
     attr |-> "", tuples |-> {}, shutdown |-> <<>>]
\* The binding with its two variables exchanged.
AttributeBindingSwapped(e, v, a) ==
    [status |-> "ok", reason |-> "", kind |-> "Attribute", variables |-> <<v, e>>,
     attr |-> a, tuples |-> {}, shutdown |-> <<>>]
AttributeBinding(e, v, a) ==
    [status |-> "ok", reason |-> "", kind |-> "Attribute", variables |-> <<e, v>>,
     attr |-> a, tuples |-> {}, shutdown |-> <<>>]
CollectionRelation(vs, ts, sh) ==
    [status |-> "ok", reason |-> "", kind |-> "Collection", variables |-> vs,
     attr |-> "", tuples |-> ts, shutdown |-> sh]

\* The button an import returns, named by the trace imported.
Button(trace, name) == <<trace, name>>

\* ImplContext: the attributes with a forward, respectively reverse, propose
\* trace, their facts, and the named relations.
ForwardPropose(c, a) == IF a \in c.fwd THEN MapColl(c.data[a], [r \in Rows2(c.data[a]) |-> r]) ELSE {}
ReversePropose(c, a) ==
    IF a \in c.rev THEN MapColl(c.data[a], [r \in Rows2(c.data[a]) |-> <<r[2], r[1]>>]) ELSE {}

(***************************************************************************)
(* Relation::tuples_by_variables and Relation::projected                   *)
(***************************************************************************)
Unbound(vs, T) == \E i \in 1..Len(T) : ~InSeq(vs, T[i])

\* row restricted to the columns of the variables T, in T's order.
Columns(vs, row, T) == [i \in 1..Len(T) |-> row[Position(vs, T[i])]]

\* row restricted to the columns whose variable is not in T, in row order.
RestColumns(vs, row, T) ==
    LET idx == SelectSeq([i \in 1..Len(vs) |-> i], LAMBDA i : ~InSeq(T, vs[i]))
    IN [j \in 1..Len(idx) |-> row[idx[j]]]

\* CollectionRelation::tuples_by_variables: the tuples keyed by the columns of
\* T, the other columns as the value; a variable of T the relation does not
\* bind is fatal.
TuplesByVariables(rel, T) ==
    IF Unbound(rel.variables, T)
    THEN [status |-> "abort", arr |-> {}]
    ELSE [status |-> "ok",
          arr |-> MapColl(rel.tuples,
                          [row \in Rows2(rel.tuples) |->
                              <<Columns(rel.variables, row, T),
                                RestColumns(rel.variables, row, T)>>])]

\* Relation::projected: the tuples restricted to the columns of T; an
\* attribute carrier is first materialised from its forward propose trace.
ProjectedCollection(vs, tuples, T, sh) ==
    IF vs = T THEN [status |-> "ok", reason |-> "", tuples |-> tuples, shutdown |-> sh]
    ELSE IF Unbound(vs, T)
    THEN [status |-> "abort", reason |-> "UnboundProjectionTarget", tuples |-> {},
          shutdown |-> <<>>]
    ELSE [status |-> "ok", reason |-> "",
          tuples |-> MapColl(tuples, [row \in Rows2(tuples) |-> Columns(vs, row, T)]),
          shutdown |-> sh]

Projected(c, rel, T) ==
    IF rel.kind = "Collection"
    THEN ProjectedCollection(rel.variables, rel.tuples, T, <<>>)
    ELSE IF rel.attr \notin c.fwd
    THEN [status |-> "abort", reason |-> "MissingAttribute", tuples |-> {},
          shutdown |-> <<>>]
    ELSE ProjectedCollection(rel.variables, ForwardPropose(c, rel.attr), T,
                             <<Button("forward_propose", rel.attr)>>)

(***************************************************************************)
(* Join (src/plan/join.rs)                                                 *)
(***************************************************************************)
\* Variants of the join's steps, each with one plausible slip.
\* The forward propose trace is imported whichever variable the target is.
AttributeSideForwardOnly(c, target, b) ==
    IF target = b.variables[1] \/ target = b.variables[2]
    THEN IF b.attr \in c.fwd
         THEN [status |-> "ok", reason |-> "",
               other |-> IF target = b.variables[1] THEN b.variables[2]
                         ELSE b.variables[1],
               index |-> ForwardPropose(c, b.attr),
               button |-> Button("forward_propose", b.attr)]
         ELSE [status |-> "abort", reason |-> "MissingForwardPropose", other |-> 0,
               index |-> {}, button |-> <<>>]
    ELSE [status |-> "abort", reason |-> "UnboundTarget", other |-> 0,
          index |-> {}, button |-> <<>>]

\* A target that is not the first variable is taken to be the second.
AttributeSideNoUnboundCheck(c, target, b) ==
    IF target = b.variables[1]
    THEN IF b.attr \in c.fwd
         THEN [status |-> "ok", reason |-> "", other |-> b.variables[2],
               index |-> ForwardPropose(c, b.attr),
               button |-> Button("forward_propose", b.attr)]
         ELSE [status |-> "abort", reason |-> "MissingForwardPropose", other |-> 0,
               index |-> {}, button |-> <<>>]
    ELSE IF b.attr \in c.rev
         THEN [status |-> "ok", reason |-> "", other |-> b.variables[1],
               index |-> ReversePropose(c, b.attr),
               button |-> Button("reverse_propose", b.attr)]
         ELSE [status |-> "abort", reason |-> "MissingReversePropose", other |-> 0,
               index |-> {}, button |-> <<>>]

\* One side of attribute_attribute: the index keyed by the target, the other
\* variable, and the button of the import.
AttributeSide(c, target, b) ==
    IF target = b.variables[1]
    THEN IF b.attr \in c.fwd
         THEN [status |-> "ok", reason |-> "", other |-> b.variables[2],
               index |-> ForwardPropose(c, b.attr),
               button |-> Button("forward_propose", b.attr)]
         ELSE [status |-> "abort", reason |-> "MissingForwardPropose", other |-> 0,
               index |-> {}, button |-> <<>>]
    ELSE IF target = b.variables[2]
    THEN IF b.attr \in c.rev
         THEN [status |-> "ok", reason |-> "", other |-> b.variables[1],
               index |-> ReversePropose(c, b.attr),
               button |-> Button("reverse_propose", b.attr)]
         ELSE [status |-> "abort", reason |-> "MissingReversePropose", other |-> 0,
               index |-> {}, button |-> <<>>]
    ELSE [status |-> "abort", reason |-> "UnboundTarget", other |-> 0,
          index |-> {}, button |-> <<>>]

AttributeAttribute(c, target, left, right) ==
    LET l == AttributeSide(c, target, left)
        r == AttributeSide(c, target, right)
    IN IF l.status = "abort" THEN Abort(l.reason)
       ELSE IF r.status = "abort" THEN Abort(r.reason)
       ELSE CollectionRelation(
              <<target, l.other, r.other>>,
              JoinCore(l.index, r.index),
              <<l.button, r.button>>)

\* The remainder of the right relation is put before that of the left.
CollectionCollectionRightFirst(c, target_variables, left, right) ==
    LET variables == target_variables
                       \o Remainder(right.variables, target_variables)
                       \o Remainder(left.variables, target_variables)
        la == TuplesByVariables(left, target_variables)
        ra == TuplesByVariables(right, target_variables)
    IN IF la.status = "abort" \/ ra.status = "abort"
       THEN Abort("UnboundJoinTarget")
       ELSE CollectionRelation(
              variables,
              LET j == JoinCore(la.arr, ra.arr)
              IN MapColl(j, [x \in Rows2(j) |-> x[1] \o x[2] \o x[3]]),
              <<>>)

CollectionCollection(c, target_variables, left, right) ==
    LET variables == target_variables
                       \o Remainder(left.variables, target_variables)
                       \o Remainder(right.variables, target_variables)
        la == TuplesByVariables(left, target_variables)
        ra == TuplesByVariables(right, target_variables)
    IN IF la.status = "abort" \/ ra.status = "abort"
       THEN Abort("UnboundJoinTarget")
       ELSE CollectionRelation(
              variables,
              LET j == JoinCore(la.arr, ra.arr)
              IN MapColl(j, [x \in Rows2(j) |-> x[1] \o x[2] \o x[3]]),
              <<>>)

\* The attribute is materialised with its variables in the order (v, e).
CollectionAttributeSwapped(c, target_variables, left, right) ==
    IF right.attr \notin c.fwd
    THEN Abort("MissingAttribute")
    ELSE LET right_collected ==
                 CollectionRelation(<<right.variables[2], right.variables[1]>>,
                                    ForwardPropose(c, right.attr), <<>>)
             j == CollectionCollection(c, target_variables, left, right_collected)
         IN IF j.status = "abort" THEN j
            ELSE [j EXCEPT !.shutdown =
                      Append(@, Button("forward_propose", right.attr))]

CollectionAttribute(c, target_variables, left, right) ==
    IF right.attr \notin c.fwd
    THEN Abort("MissingAttribute")
    ELSE LET right_collected ==
                 CollectionRelation(<<right.variables[1], right.variables[2]>>,
                                    ForwardPropose(c, right.attr), <<>>)
             j == CollectionCollection(c, target_variables, left, right_collected)
         IN IF j.status = "abort" THEN j
            ELSE [j EXCEPT !.shutdown =
                      Append(@, Button("forward_propose", right.attr))]

\* Two attributes and more than one target: always "unimplemented".
JoinDispatchNoArityCheck(c, T, left, right) ==
    IF left.kind = "Attribute"
    THEN IF right.kind = "Attribute"
         THEN IF Len(T) = 1 THEN AttributeAttribute(c, T[1], left, right)
              ELSE Abort("Unimplemented")
         ELSE CollectionAttribute(c, T, right, left)
    ELSE IF right.kind = "Attribute"
         THEN CollectionAttribute(c, T, left, right)
         ELSE CollectionCollection(c, T, left, right)

\* The carrier dispatch of Join::implement.
JoinDispatch(c, T, left, right) ==
    IF left.kind = "Attribute"
    THEN IF right.kind = "Attribute"
         THEN IF Len(T) = 1 THEN AttributeAttribute(c, T[1], left, right)
              ELSE IF Len(T) = 2 THEN Abort("Unimplemented")
              ELSE Abort("JoinArityExceeded")
         ELSE CollectionAttribute(c, T, right, left)
    ELSE IF right.kind = "Attribute"
         THEN CollectionAttribute(c, T, left, right)
         ELSE CollectionCollection(c, T, left, right)

\* The handle of the right child is not merged.
JoinImplementDropRight(c, T, left, right) ==
    IF left.status = "abort" THEN left
    ELSE IF right.status = "abort" THEN right
    ELSE LET j == JoinDispatch(c, T, left, right)
         IN IF j.status = "abort" THEN j
            ELSE [j EXCEPT !.shutdown = @ \o left.shutdown]

JoinImplement(c, T, left, right) ==
    IF left.status = "abort" THEN left
    ELSE IF right.status = "abort" THEN right
    ELSE LET j == JoinDispatch(c, T, left, right)
         IN IF j.status = "abort" THEN j
            ELSE [j EXCEPT !.shutdown = @ \o left.shutdown \o right.shutdown]

(***************************************************************************)
(* Plan::implement (src/plan/mod.rs, project.rs, union.rs)                 *)
(***************************************************************************)
\* Plan::variables
RECURSIVE PlanVariables(_)
PlanVariables(p) ==
    IF p.op = "Negate" THEN PlanVariables(p.kids[1]) ELSE p.vars

\* An attribute the context does not have is read as empty.
MatchEAImplementNoCheck(c, match_e, a, sym1) ==
    CollectionRelation(
      <<sym1>>,
      LET propose == ForwardPropose(c, a)
          kept == FilterColl(propose, [r \in Rows2(propose) |-> r[1] = match_e])
      IN MapColl(kept, [r \in Rows2(kept) |-> <<r[2]>>]),
      <<Button("forward_propose", a)>>)

MatchEAImplement(c, match_e, a, sym1) ==
    IF a \notin c.fwd THEN Abort("MissingAttribute")
    ELSE CollectionRelation(
           <<sym1>>,
           LET propose == ForwardPropose(c, a)
               kept == FilterColl(propose, [r \in Rows2(propose) |-> r[1] = match_e])
           IN MapColl(kept, [r \in Rows2(kept) |-> <<r[2]>>]),
           <<Button("forward_propose", a)>>)

MatchAVImplement(c, sym1, a, match_v) ==
    IF a \notin c.fwd THEN Abort("MissingAttribute")
    ELSE CollectionRelation(
           <<sym1>>,
           LET propose == ForwardPropose(c, a)
               kept == FilterColl(propose, [r \in Rows2(propose) |-> r[2] = match_v])
           IN MapColl(kept, [r \in Rows2(kept) |-> <<r[1]>>]),
           <<Button("forward_propose", a)>>)

\* A name missing from the selected source is taken from the other one.
NameExprImplementFallback(c, syms, name) ==
    IF name \in c.under /\ name \in c.local
    THEN CollectionRelation(syms, c.localData[name], <<>>)
    ELSE IF name \in c.global
    THEN CollectionRelation(syms, c.globalData[name],
                            <<Button("global_arrangement", name)>>)
    ELSE IF name \in c.local
    THEN CollectionRelation(syms, c.localData[name], <<>>)
    ELSE Abort("NotInQueryMap")

NameExprImplement(c, syms, name) ==
    IF name \in c.under
    THEN IF name \notin c.local THEN Abort("NotInRelationMap")
         ELSE CollectionRelation(syms, c.localData[name], <<>>)
    ELSE IF name \notin c.global THEN Abort("NotInQueryMap")
         ELSE CollectionRelation(syms, c.globalData[name],
                                 <<Button("global_arrangement", name)>>)

\* The projection is deduplicated.
ProjectImplementDistinct(c, T, relation) ==
    IF relation.status = "abort" THEN relation
    ELSE LET pr == Projected(c, relation, T)
         IN IF pr.status = "abort" THEN Abort(pr.reason)
            ELSE CollectionRelation(T, Distinct(pr.tuples),
                                    relation.shutdown \o pr.shutdown)

ProjectImplement(c, T, relation) ==
    IF relation.status = "abort" THEN relation
    ELSE LET pr == Projected(c, relation, T)
         IN IF pr.status = "abort" THEN Abort(pr.reason)
            ELSE CollectionRelation(T, pr.tuples, relation.shutdown \o pr.shutdown)

\* The projection is returned without negating it.
NegateImplementIdentity(c, relation) ==
    IF relation.status = "abort" THEN relation
    ELSE LET pr == Projected(c, relation, relation.variables)
         IN IF pr.status = "abort" THEN Abort(pr.reason)
            ELSE CollectionRelation(relation.variables, pr.tuples,
                                    relation.shutdown \o pr.shutdown)

NegateImplement(c, relation) ==
    IF relation.status = "abort" THEN relation
    ELSE LET pr == Projected(c, relation, relation.variables)
         IN IF pr.status = "abort" THEN Abort(pr.reason)
            ELSE CollectionRelation(relation.variables, NegateColl(pr.tuples),
                                    relation.shutdown \o pr.shutdown)

\* One turn of the closure of Union::implement: the child's relation,
\* projected onto the union's variables, joins the streams so far.
UnionStream(c, T, sofar, relation) ==
    IF sofar.status = "abort" THEN sofar
    ELSE IF relation.status = "abort" THEN relation
    ELSE LET pr == Projected(c, relation, T)
         IN IF pr.status = "abort" THEN Abort(pr.reason)
            ELSE CollectionRelation(T, Concat(sofar.tuples, pr.tuples),
                                    sofar.shutdown \o relation.shutdown \o pr.shutdown)

\* The concatenation is returned as it is.
UnionFinishNoDistinct(concat) == concat

UnionFinish(concat) ==
    IF concat.status = "abort" THEN concat
    ELSE [concat EXCEPT !.tuples = Distinct(@)]

RECURSIVE Implement(_, _)
RECURSIVE UnionStreams(_, _, _, _)
UnionStreams(c, T, plans, n) ==
    IF n = 0 THEN CollectionRelation(T, {}, <<>>)
    ELSE UnionStream(c, T, UnionStreams(c, T, plans, n - 1), Implement(plans[n], c))

Implement(p, c) ==
    CASE p.op = "MatchA" -> AttributeBinding(p.vars[1], p.vars[2], p.aid)
      [] p.op = "MatchEA" -> MatchEAImplement(c, p.const, p.aid, p.vars[1])
      [] p.op = "MatchAV" -> MatchAVImplement(c, p.vars[1], p.aid, p.const)
      [] p.op = "NameExpr" -> NameExprImplement(c, p.vars, p.aid)
      [] p.op = "Project" -> ProjectImplement(c, p.vars, Implement(p.kids[1], c))
      [] p.op = "Negate" -> NegateImplement(c, Implement(p.kids[1], c))
      [] p.op = "Union" -> UnionFinish(UnionStreams(c, p.vars, p.kids, Len(p.kids)))
      [] p.op = "Join" ->
            IF p.vars = <<>> THEN Abort("EmptyJoinVariables")
            ELSE JoinImplement(c, p.vars, Implement(p.kids[1], c), Implement(p.kids[2], c))

(***************************************************************************)
(* Bounded plans and contexts                                              *)
(***************************************************************************)
Coll2(a, b, c, d) ==
    {r \in {Row(<<1, 1>>, a), Row(<<1, 2>>, b), Row(<<2, 1>>, c), Row(<<2, 2>>, d)} :
        r.diff # 0}

\* The contexts implement is called with. set_semantics is the build's
\* feature "set-semantics", fixed when the crate is compiled.
Contexts ==
    { [id |-> 1, set_semantics |-> TRUE, fwd |-> {"a", "b"}, rev |-> {"a", "b"},
       data |-> [x \in Aid |-> IF x = "a" THEN Coll2(1, 1, 2, 0) ELSE Coll2(0, 1, 1, 1)],
       under |-> {}, local |-> {}, global |-> {"q"},
       localData |-> [n \in RuleName |-> {}],
       globalData |-> [n \in RuleName |-> Coll2(1, 0, 2, 1)]],
      [id |-> 2, set_semantics |-> TRUE, fwd |-> {"a"}, rev |-> {"a"},
       data |-> [x \in Aid |-> IF x = "a" THEN Coll2(0, 2, 1, 1) ELSE {}],
       under |-> {"q"}, local |-> {"q"}, global |-> {"q"},
       localData |-> [n \in RuleName |-> Coll2(1, 1, 0, 1)],
       globalData |-> [n \in RuleName |-> Coll2(0, 0, 1, 2)]],
      [id |-> 3, set_semantics |-> TRUE, fwd |-> {"a", "b"}, rev |-> {"a"},
       data |-> [x \in Aid |-> IF x = "a" THEN Coll2(1, 0, 1, 1) ELSE Coll2(2, 1, 0, 1)],
       under |-> {"q"}, local |-> {}, global |-> {"q"},
       localData |-> [n \in RuleName |-> {}],
       globalData |-> [n \in RuleName |-> Coll2(0, 1, 1, 0)]],
      [id |-> 4, set_semantics |-> FALSE, fwd |-> {"a"}, rev |-> {},
       data |-> [x \in Aid |-> IF x = "a" THEN Coll2(2, 1, 0, 1) ELSE {}],
       under |-> {}, local |-> {"q"}, global |-> {},
       localData |-> [n \in RuleName |-> Coll2(1, 0, 1, 0)],
       globalData |-> [n \in RuleName |-> {}]] }

\* Target lists: the lists of distinct variables of at most MaxTargets.
TargetSeqs ==
    UNION {{s \in [1..n -> Var] : NoDup(s)} : n \in 0..MaxTargets}

Leaves ==
    {MatchA(e, "a", v) : e \in Var, v \in Var}
    \cup {MatchA(x[1], "b", x[2]) : x \in {y \in Var \X Var : y[1] < y[2]}}
    \cup {MatchEA(1, x[1], x[2]) : x \in Aid \X {1, 2}}
    \cup {MatchAV(x[2], x[1], 1) : x \in Aid \X {1, 2}}
    \cup {NameExpr(s, n) : s \in {<<1, 2>>, <<2, 1>>, <<1, 3>>, <<2, 3>>}, n \in RuleName}

\* Some plans that are not leaves, as children.
InnerPlans ==
    { Join(<<1>>, MatchA(1, "a", 2), MatchA(1, "a", 3)),
      Project(<<2, 1>>, MatchA(1, "a", 2)),
      Negate(MatchA(2, "a", 3)),
      Union(<<1>>, <<MatchAV(1, "a", 1), MatchEA(1, "a", 1)>>) }

Kids == Leaves \cup InnerPlans

\* The children of a union bind the variables of the union.
UnionKids(T) ==
    LET ok == {k \in Kids : \A i \in 1..Len(T) : InSeq(PlanVariables(k), T[i])}
    IN {<<>>} \cup {<<k>> : k \in ok} \cup {<<k, l>> : k \in ok, l \in ok}

InitPlan ==
    /\ InitCardVars
    /\ InitIdsIdle
    /\ InitCsvIdle
    /\ ctx \in Contexts
    /\ plan = IdlePlan
    /\ res = IdleRes

\* implement is called once, on one plan.
Compiled(p) ==
    /\ plan' = p
    /\ res' = Implement(p, ctx)

ImplementLeaf ==
    /\ plan = IdlePlan
    /\ \E p \in Leaves : Compiled(p)
    /\ UNCHANGED <<ctx, cardVars, idVars, csvVars>>

ImplementProject ==
    /\ plan = IdlePlan
    /\ \E T \in TargetSeqs, k \in Kids : Compiled(Project(T, k))
    /\ UNCHANGED <<ctx, cardVars, idVars, csvVars>>

ImplementNegate ==
    /\ plan = IdlePlan
    /\ \E k \in Kids : Compiled(Negate(k))
    /\ UNCHANGED <<ctx, cardVars, idVars, csvVars>>

ImplementUnion ==
    /\ plan = IdlePlan
    /\ \E T \in TargetSeqs : \E ks \in UnionKids(T) : Compiled(Union(T, ks))
    /\ UNCHANGED <<ctx, cardVars, idVars, csvVars>>

ImplementJoin ==
    /\ plan = IdlePlan
    /\ \E T \in TargetSeqs, l \in Kids, r \in Kids : Compiled(Join(T, l, r))
    /\ UNCHANGED <<ctx, cardVars, idVars, csvVars>>

NextPlan ==
    \/ ImplementLeaf
    \/ ImplementProject
    \/ ImplementNegate
    \/ ImplementUnion
    \/ ImplementJoin

SpecPlan == InitPlan /\ [][NextPlan]_vars

(***************************************************************************)
(* Claims about Join and the schema of compiled relations                  *)
(***************************************************************************)
IsJoin == plan.op = "Join" /\ plan.vars # <<>>
LeftRel == Implement(plan.kids[1], ctx)
RightRel == Implement(plan.kids[2], ctx)
ChildrenOk == LeftRel.status = "ok" /\ RightRel.status = "ok"

\* The list s without the variables of T, in s's order.
RECURSIVE Without(_, _)
Without(s, T) ==
    IF s = <<>> THEN <<>>
    ELSE (IF InSeq(T, Head(s)) THEN <<>> ELSE <<Head(s)>>) \o Without(Tail(s), T)

\* The value a row of schema vs gives to the variable x.
ValueOf(vs, row, x) == row[Position(vs, x)]

\* The row without the columns of the variables of T.
RECURSIVE RowWithout(_, _, _)
RowWithout(vs, row, T) ==
    IF vs = <<>> THEN <<>>
    ELSE (IF InSeq(T, Head(vs)) THEN <<>> ELSE <<Head(row)>>)
           \o RowWithout(Tail(vs), Tail(row), T)

\* The equijoin of two relations on T, as the claims state it: for the pairs
\* of rows that agree on all of T, target values, left remainder, right
\* remainder, with the product of the multiplicities.
EquiJoin(T, Lv, Lt, Rv, Rt) ==
    LET pairs == {pr \in Lt \X Rt :
                    \A i \in 1..Len(T) :
                        ValueOf(Lv, pr[1].row, T[i]) = ValueOf(Rv, pr[2].row, T[i])}
        out(pr) == [i \in 1..Len(T) |-> ValueOf(Lv, pr[1].row, T[i])]
                     \o RowWithout(Lv, pr[1].row, T)
                     \o RowWithout(Rv, pr[2].row, T)
        sum(x) == SumSet({pr \in pairs : out(pr) = x},
                         [pr \in pairs |-> pr[1].diff * pr[2].diff])
    IN {Row(x, sum(x)) : x \in {y \in {out(pr) : pr \in pairs} : sum(y) # 0}}

BoundBy(vs, T) == \A i \in 1..Len(T) : InSeq(vs, T[i])

\* C5: a join of two collection carriers has the schema T ++ (L \ T) ++
\* (R \ T) and the rows target values ++ left remainder ++ right remainder of
\* the pairs that agree on T, with the product of their multiplicities.
C5_JoinCollectionCollection ==
    (IsJoin /\ ChildrenOk /\ LeftRel.kind = "Collection" /\ RightRel.kind = "Collection"
       /\ BoundBy(LeftRel.variables, plan.vars) /\ BoundBy(RightRel.variables, plan.vars))
    => /\ res.status = "ok"
       /\ res.kind = "Collection"
       /\ res.variables = plan.vars \o Without(LeftRel.variables, plan.vars)
                                    \o Without(RightRel.variables, plan.vars)
       /\ res.tuples = EquiJoin(plan.vars, LeftRel.variables, LeftRel.tuples,
                                RightRel.variables, RightRel.tuples)

\* Two collections with a remainder each have been joined, and a row of the
\* result has a multiplicity that is a product.
C5_Witness ==
    /\ IsJoin /\ ChildrenOk /\ res.status = "ok"
    /\ LeftRel.kind = "Collection" /\ RightRel.kind = "Collection"
    /\ Without(LeftRel.variables, plan.vars) # <<>>
    /\ Without(RightRel.variables, plan.vars) # <<>>
    /\ \E r \in res.tuples : r.diff > 1

OneAttribute ==
    IsJoin /\ ChildrenOk /\ LeftRel.kind # RightRel.kind
AttributeChild == IF LeftRel.kind = "Attribute" THEN LeftRel ELSE RightRel
CollectionChild == IF LeftRel.kind = "Attribute" THEN RightRel ELSE LeftRel
\* The facts of an attribute, as rows [e, v].
Facts(a) == ctx.data[a]

\* C6 as stated: with one attribute carrier, in either order, the schema is
\* T ++ (left \ T) ++ (right \ T) for the join's left and right plan.
C6_Original ==
    (OneAttribute /\ res.status = "ok")
    => res.variables = plan.vars \o Without(LeftRel.variables, plan.vars)
                                 \o Without(RightRel.variables, plan.vars)

\* C6 amended: with one attribute carrier the attribute is materialised from
\* its forward propose trace as [e, v] and joined as the right relation of
\* the collection x collection case, so the schema is T ++ (collection \ T)
\* ++ (attribute \ T) in both orders of the carriers.
C6_JoinMixed ==
    (OneAttribute /\ AttributeChild.attr \in ctx.fwd
       /\ BoundBy(LeftRel.variables, plan.vars) /\ BoundBy(RightRel.variables, plan.vars))
    => /\ res.status = "ok"
       /\ res.kind = "Collection"
       /\ res.variables = plan.vars \o Without(CollectionChild.variables, plan.vars)
                                    \o Without(AttributeChild.variables, plan.vars)
       /\ res.tuples = EquiJoin(plan.vars, CollectionChild.variables,
                                CollectionChild.tuples, AttributeChild.variables,
                                Facts(AttributeChild.attr))
       /\ InSeq(res.shutdown, Button("forward_propose", AttributeChild.attr))

\* The attribute is the left child, both children have a remainder, and the
\* result has rows.
C6_Witness ==
    /\ OneAttribute /\ res.status = "ok"
    /\ LeftRel.kind = "Attribute"
    /\ Without(LeftRel.variables, plan.vars) # <<>>
    /\ Without(RightRel.variables, plan.vars) # <<>>
    /\ res.tuples # {}

TwoAttributes ==
    IsJoin /\ ChildrenOk /\ LeftRel.kind = "Attribute" /\ RightRel.kind = "Attribute"
\* The trace the claim has a side import, and what it carries.
SideTrace(b, t) == IF t = b.variables[1] THEN "forward_propose" ELSE "reverse_propose"
SideOther(b, t) == IF t = b.variables[1] THEN b.variables[2] ELSE b.variables[1]
SideHas(b, t) == IF t = b.variables[1] THEN b.attr \in ctx.fwd ELSE b.attr \in ctx.rev
\* The index of the chosen trace: <<key, value, multiplicity>>.
SideIndex(b, t) ==
    {IF t = b.variables[1] THEN <<f.row[1], f.row[2], f.diff>>
     ELSE <<f.row[2], f.row[1], f.diff>> : f \in Facts(b.attr)}

\* C7: with two attribute carriers and one target t, each side imports the
\* forward propose trace when t is its first variable and the reverse one
\* when t is its second, and the result has the schema [t, other_left,
\* other_right] and the rows [k, vl, vr] of the keys in both indices.
C7_JoinAttributeAttribute ==
    (TwoAttributes /\ Len(plan.vars) = 1
       /\ InSeq(LeftRel.variables, plan.vars[1]) /\ InSeq(RightRel.variables, plan.vars[1])
       /\ SideHas(LeftRel, plan.vars[1]) /\ SideHas(RightRel, plan.vars[1]))
    => LET t == plan.vars[1]
       IN /\ res.status = "ok"
          /\ res.kind = "Collection"
          /\ res.variables = <<t, SideOther(LeftRel, t), SideOther(RightRel, t)>>
          /\ res.shutdown = <<Button(SideTrace(LeftRel, t), LeftRel.attr),
                              Button(SideTrace(RightRel, t), RightRel.attr)>>
          /\ res.tuples =
                {Row(<<x[1][1], x[1][2], x[2][2]>>, x[1][3] * x[2][3]) :
                    x \in {y \in SideIndex(LeftRel, t) \X SideIndex(RightRel, t) :
                              y[1][1] = y[2][1]}}

\* The target is the second variable of the left attribute and the first of
\* the right one, and the result has rows.
C7_Witness ==
    /\ TwoAttributes /\ Len(plan.vars) = 1 /\ res.status = "ok"
    /\ plan.vars[1] # LeftRel.variables[1]
    /\ plan.vars[1] = RightRel.variables[1]
    /\ res.tuples # {}

\* C8: a join with a target that its left or its right child does not bind
\* aborts, whatever the carriers.
C8_UnboundJoinTarget ==
    (IsJoin /\ ChildrenOk
       /\ ~(BoundBy(LeftRel.variables, plan.vars) /\ BoundBy(RightRel.variables, plan.vars)))
    => res.status = "abort"

\* A join of a collection and an attribute that exist, on a target the
\* attribute does not bind, has aborted.
C8_Witness ==
    /\ OneAttribute
    /\ AttributeChild.attr \in ctx.fwd
    /\ BoundBy(CollectionChild.variables, plan.vars)
    /\ ~BoundBy(AttributeChild.variables, plan.vars)
    /\ res.status = "abort"

ShapeErrors == {"EmptyJoinVariables", "Unimplemented", "JoinArityExceeded"}

\* C9: an empty target list aborts; two attribute carriers abort as
\* unimplemented on two targets and as a shape error on more; every other
\* pair of carriers accepts any non-empty target list.
C9_JoinShape ==
    /\ (plan.op = "Join" /\ plan.vars = <<>>)
         => (res.status = "abort" /\ res.reason = "EmptyJoinVariables")
    /\ (TwoAttributes /\ Len(plan.vars) = 2)
         => (res.status = "abort" /\ res.reason = "Unimplemented")
    /\ (TwoAttributes /\ Len(plan.vars) > 2)
         => (res.status = "abort" /\ res.reason = "JoinArityExceeded")
    /\ (IsJoin /\ ChildrenOk /\ ~TwoAttributes)
         => /\ res.reason \notin ShapeErrors
            /\ (/\ BoundBy(LeftRel.variables, plan.vars)
                /\ BoundBy(RightRel.variables, plan.vars)
                /\ (OneAttribute => AttributeChild.attr \in ctx.fwd))
               => res.status = "ok"

\* Two attributes joined on three targets.
C9_Witness ==
    /\ TwoAttributes
    /\ Len(plan.vars) = 3
    /\ res.reason = "JoinArityExceeded"

\* The plans C10 is about: built from the operators it names, over attribute
\* patterns that bind two different variables.
RECURSIVE SchemaPlan(_)
SchemaPlan(p) ==
    /\ p.op # "NameExpr"
    /\ (p.op = "MatchA" => p.vars[1] # p.vars[2])
    /\ \A i \in 1..Len(p.kids) : SchemaPlan(p.kids[i])

\* C10: a collection returned for MatchEA, MatchAV, Project, Union, Negate or
\* Join has a list of variables without repetition, of the length of every
\* tuple, also when the children of a Join share a variable that is not a
\* target.
C10_SchemaInvariant ==
    (plan.op # "None" /\ SchemaPlan(plan) /\ res.status = "ok" /\ res.kind = "Collection")
    => /\ NoDup(res.variables)
       /\ \A r \in res.tuples : Len(r.row) = Len(res.variables)

(***************************************************************************)
(* Claims about shutdown handles, joins, unions, negation and projection   *)
(***************************************************************************)
ImportKinds == {"forward_propose", "reverse_propose", "global_arrangement"}
Buttons == {Button(t, n) : t \in ImportKinds, n \in Aid \cup RuleName}
Count(s, b) == Cardinality({i \in 1..Len(s) : s[i] = b})
One(cond) == IF cond THEN 1 ELSE 0

\* The import a consumer makes to materialise the relation of the plan p: an
\* attribute pattern is read from its forward propose trace.
MaterialiseCount(p, b) ==
    One(p.op = "MatchA" /\ b = Button("forward_propose", p.aid))

\* The import one side of a join of two attribute patterns makes.
SideCount(p, t, b) ==
    One(b = Button(IF t = p.vars[1] THEN "forward_propose" ELSE "reverse_propose", p.aid))

\* The number of imports that give the button b when the plan p compiles.
RECURSIVE ImportCount(_, _, _)
RECURSIVE ImportCountAll(_, _, _, _)
ImportCountAll(ps, c, b, n) ==
    IF n = 0 THEN 0
    ELSE ImportCountAll(ps, c, b, n - 1) + ImportCount(ps[n], c, b)
           + MaterialiseCount(ps[n], b)

ImportCount(p, c, b) ==
    CASE p.op = "MatchA" -> 0
      [] p.op \in {"MatchEA", "MatchAV"} -> One(b = Button("forward_propose", p.aid))
      [] p.op = "NameExpr" ->
            One(p.aid \notin c.under /\ b = Button("global_arrangement", p.aid))
      [] p.op \in {"Project", "Negate", "Union"} ->
            ImportCountAll(p.kids, c, b, Len(p.kids))
      [] p.op = "Join" ->
            ImportCount(p.kids[1], c, b) + ImportCount(p.kids[2], c, b)
              + (IF p.kids[1].op = "MatchA" /\ p.kids[2].op = "MatchA"
                 THEN SideCount(p.kids[1], p.vars[1], b) + SideCount(p.kids[2], p.vars[1], b)
                 ELSE MaterialiseCount(p.kids[1], b) + MaterialiseCount(p.kids[2], b))

\* C11: the handle implement returns holds one button for each import made
\* while the plan compiled, by the node or a descendant: none is dropped and
\* none is held twice.
C11_ShutdownComposition ==
    (plan.op # "None" /\ res.status = "ok")
    => /\ \A i \in 1..Len(res.shutdown) : res.shutdown[i] \in Buttons
       /\ \A b \in Buttons : Count(res.shutdown, b) = ImportCount(plan, ctx, b)

\* A join whose children have handles of their own, with one trace imported
\* twice.
C11_Witness ==
    /\ plan.op = "Join" /\ res.status = "ok"
    /\ LeftRel.shutdown # <<>> /\ RightRel.shutdown # <<>>
    /\ Len(res.shutdown) >= 3
    /\ \E b \in Buttons : Count(res.shutdown, b) >= 2

\* The join of the plan with its children exchanged.
Swapped == Implement(Join(plan.vars, plan.kids[2], plan.kids[1]), ctx)

\* The rows of C, of schema from, with their columns in the order of to.
Reordered(C, from, to) ==
    {Row([i \in 1..Len(to) |-> ValueOf(from, r.row, to[i])], r.diff) : r \in C}

\* Two children are compatible when neither binds a variable twice and they
\* share no variable that is not a target.
Compatible ==
    /\ NoDup(LeftRel.variables) /\ NoDup(RightRel.variables)
    /\ \A x \in Var : (InSeq(LeftRel.variables, x) /\ InSeq(RightRel.variables, x))
                         => InSeq(plan.vars, x)

\* C12: Join(T, A, B) and Join(T, B, A) compile or abort together and, for
\* compatible children, have the same rows with the same multiplicities once
\* the columns are matched by variable.
C12_JoinCommutativity ==
    (plan.op = "Join")
    => /\ res.status = Swapped.status
       /\ (res.status = "ok" /\ Compatible)
            => /\ {res.variables[i] : i \in 1..Len(res.variables)}
                    = {Swapped.variables[i] : i \in 1..Len(Swapped.variables)}
               /\ Len(res.variables) = Len(Swapped.variables)
               /\ Swapped.tuples = Reordered(res.tuples, res.variables, Swapped.variables)

\* A join of compatible children whose exchange has another column order, with
\* rows of different multiplicities.
C12_Witness ==
    /\ plan.op = "Join" /\ res.status = "ok" /\ Compatible
    /\ Swapped.variables # res.variables
    /\ \E r, q \in res.tuples : r.diff # q.diff

\* The rows a consumer reads from a child's relation: an attribute carrier is
\* read from its forward propose trace.
ChildRows(rel) == IF rel.kind = "Attribute" THEN Facts(rel.attr) ELSE rel.tuples

\* The rows of n columns.
RowsOf(n) == [1..n -> Ent \cup Val]

\* The multiplicity of the row x in the relation projected onto T.
ProjectedMult(rel, T, x) ==
    SumSet({r \in ChildRows(rel) :
               [i \in 1..Len(T) |-> ValueOf(rel.variables, r.row, T[i])] = x},
           [r \in ChildRows(rel) |-> r.diff])

\* The multiplicity of x in the concatenation of the projected children of
\* the union.
ConcatMult(x) ==
    SumSet(1..Len(plan.kids),
           [i \in 1..Len(plan.kids) |->
               ProjectedMult(Implement(plan.kids[i], ctx), plan.vars, x)])

\* C13: with set semantics a union holds a row, once, exactly when its
\* multiplicity in the concatenation of the projected children is positive; a
\* union of no children is empty.
C13_UnionSetSemantics ==
    (plan.op = "Union" /\ ctx.set_semantics /\ res.status = "ok")
    => /\ res.variables = plan.vars
       /\ \A r \in res.tuples : r.diff = 1 /\ r.row \in RowsOf(Len(plan.vars))
       /\ \A x \in RowsOf(Len(plan.vars)) : (Row(x, 1) \in res.tuples) <=> (ConcatMult(x) > 0)
       /\ (plan.kids = <<>> => res.tuples = {})

\* A union of two children that both produce one of its rows.
C13_Witness ==
    /\ plan.op = "Union" /\ ctx.set_semantics /\ res.status = "ok"
    /\ Len(plan.kids) = 2 /\ plan.vars # <<>>
    /\ \E r \in res.tuples :
          /\ ProjectedMult(Implement(plan.kids[1], ctx), plan.vars, r.row) > 0
          /\ ProjectedMult(Implement(plan.kids[2], ctx), plan.vars, r.row) > 0

\* C14: without the feature set-semantics a union has, for every row, the sum
\* of its multiplicities in the projected children.
C14_UnionMultisetSemantics ==
    (plan.op = "Union" /\ ~ctx.set_semantics /\ res.status = "ok")
    => \A x \in RowsOf(Len(plan.vars)) : Mult(res.tuples, x) = ConcatMult(x)

\* C15: Negate(P) is a collection with P's variables in P's order in which
\* every row has the negation of its multiplicity in P, an attribute carrier
\* being read from its forward propose trace; so Negate(Negate(P)) has P's
\* rows and P concatenated with Negate(P) is empty.
C15_Negate ==
    (plan.op = "Negate" /\ LeftRel.status = "ok"
       /\ (LeftRel.kind = "Attribute" => LeftRel.attr \in ctx.fwd))
    => /\ res.status = "ok"
       /\ res.kind = "Collection"
       /\ res.variables = LeftRel.variables
       /\ PlanVariables(plan) = PlanVariables(plan.kids[1])
       /\ \A x \in RowsOf(Len(res.variables)) :
             Mult(res.tuples, x) = 0 - Mult(ChildRows(LeftRel), x)
       /\ \A r \in res.tuples : r.row \in RowsOf(Len(res.variables))
       /\ Implement(Negate(plan), ctx).tuples = ChildRows(LeftRel)
       /\ Implement(Negate(plan), ctx).variables = LeftRel.variables
       /\ Concat(ChildRows(LeftRel), res.tuples) = {}

\* The negation of an attribute pattern that has facts of different
\* multiplicities.
C15_Witness ==
    /\ plan.op = "Negate" /\ res.status = "ok"
    /\ LeftRel.kind = "Attribute"
    /\ \E r, q \in res.tuples : r.diff < q.diff /\ q.diff < 0

\* C16: Project(T, child) with T bound by the child is a collection with the
\* variables T whose rows are the child's rows restricted to the columns of T
\* in T's order, the multiplicities of rows that become equal added up; a
\* target the child does not bind aborts.
C16_Project ==
    (plan.op = "Project" /\ LeftRel.status = "ok"
       /\ (LeftRel.kind = "Attribute" => LeftRel.attr \in ctx.fwd))
    => IF BoundBy(LeftRel.variables, plan.vars)
       THEN /\ res.status = "ok"
            /\ res.kind = "Collection"
            /\ res.variables = plan.vars
            /\ \A r \in res.tuples : r.row \in RowsOf(Len(plan.vars))
            /\ \A x \in RowsOf(Len(plan.vars)) :
                  Mult(res.tuples, x) = ProjectedMult(LeftRel, plan.vars, x)
       ELSE res.status = "abort"

\* A projection that drops a column and in which two rows of the child have
\* become one.
C16_Witness ==
    /\ plan.op = "Project" /\ res.status = "ok"
    /\ plan.vars # <<>> /\ Len(plan.vars) < Len(LeftRel.variables)
    /\ \E r \in res.tuples : \E a, b \in ChildRows(LeftRel) :
          /\ a # b
          /\ a.diff > 0 /\ b.diff > 0
          /\ r.row = [i \in 1..Len(plan.vars) |-> ValueOf(LeftRel.variables, a.row, plan.vars[i])]
          /\ r.row = [i \in 1..Len(plan.vars) |-> ValueOf(LeftRel.variables, b.row, plan.vars[i])]
          /\ r.diff = a.diff + b.diff

(***************************************************************************)
(* Claims about the leaves and about dependencies                          *)
(***************************************************************************)
\* C17: MatchA(e, a, v) returns the attribute carrier of (e, v) and a with an
\* empty handle whatever the context holds, importing nothing; every other
\* plan that compiles returns a collection carrier.
C17_MatchALazy ==
    /\ (plan.op = "MatchA")
         => /\ res = [status |-> "ok", reason |-> "", kind |-> "Attribute",
                      variables |-> plan.vars, attr |-> plan.aid, tuples |-> {},
                      shutdown |-> <<>>]
            /\ \A b \in Buttons : ImportCount(plan, ctx, b) = 0
    /\ (plan.op \notin {"None", "MatchA"} /\ res.status = "ok")
         => res.kind = "Collection"

\* A pattern over an attribute the context does not have has been compiled.
C17_Witness ==
    /\ plan.op = "MatchA"
    /\ plan.aid \notin ctx.fwd /\ plan.aid \notin ctx.rev
    /\ plan.vars[1] # plan.vars[2]
    /\ res.status = "ok" /\ res.kind = "Attribute"

PatternLeaves == {"MatchA", "MatchEA", "MatchAV"}
Consumers == {"Project", "Negate", "Union", "Join"}

\* C18 as stated: a pattern leaf over an attribute the context does not know
\* aborts.
C18_Original ==
    (plan.op \in PatternLeaves /\ plan.aid \notin ctx.fwd)
    => res.status = "abort"

\* C18 amended: MatchEA and MatchAV abort exactly when forward_propose has no
\* trace for their attribute; MatchA never aborts, and an unknown attribute of
\* a MatchA is fatal in the operator above it, which reads the attribute.
C18_MissingAttribute ==
    /\ (plan.op \in {"MatchEA", "MatchAV"})
         => IF plan.aid \in ctx.fwd
            THEN res.status = "ok"
            ELSE res.status = "abort" /\ res.reason = "MissingAttribute"
    /\ (plan.op = "MatchA") => res.status = "ok"
    /\ (plan.op \in Consumers
          /\ \E i \in 1..Len(plan.kids) :
                /\ plan.kids[i].op = "MatchA"
                /\ plan.kids[i].aid \notin ctx.fwd
                /\ plan.kids[i].aid \notin ctx.rev)
         => res.status = "abort"

\* A MatchEA over an attribute without a forward propose trace has aborted.
C18_Witness ==
    /\ plan.op = "MatchEA"
    /\ plan.aid \notin ctx.fwd
    /\ res.status = "abort"

\* C19: NameExpr(syms, name) reads the scope-local collection, with an empty
\* handle, when the name is underconstrained and imports the global
\* arrangement, with its one button, when it is not; a name the selected
\* source does not have aborts, whatever the other source has.
C19_NameExprSource ==
    (plan.op = "NameExpr")
    => IF plan.aid \in ctx.under
       THEN IF plan.aid \in ctx.local
            THEN /\ res.status = "ok" /\ res.kind = "Collection"
                 /\ res.variables = plan.vars
                 /\ res.tuples = ctx.localData[plan.aid]
                 /\ res.shutdown = <<>>
            ELSE res.status = "abort"
       ELSE IF plan.aid \in ctx.global
            THEN /\ res.status = "ok" /\ res.kind = "Collection"
                 /\ res.variables = plan.vars
                 /\ res.tuples = ctx.globalData[plan.aid]
                 /\ res.shutdown = <<Button("global_arrangement", plan.aid)>>
            ELSE res.status = "abort"

\* An underconstrained name without a local collection has aborted although
\* the global arrangement exists.
C19_Witness ==
    /\ plan.op = "NameExpr"
    /\ plan.aid \in ctx.under /\ plan.aid \notin ctx.local /\ plan.aid \in ctx.global
    /\ res.status = "abort"

(***************************************************************************)
(* Dependencies (src/plan/mod.rs, join.rs, union.rs, project.rs)           *)
(***************************************************************************)
Dependencies(ns, as) == [names |-> ns, attributes |-> as]
DependenciesNone == Dependencies({}, {})
DependenciesName(name) == Dependencies({name}, {})
DependenciesAttribute(aid) == Dependencies({}, {aid})
DependenciesMerge(left, right) ==
    Dependencies(left.names \cup right.names, left.attributes \cup right.attributes)

\* Only the left plan's dependencies are returned.
JoinDependenciesLeftOnly(left, right) == left

\* Join::dependencies, of the dependencies of the two plans.
JoinDependencies(left, right) == DependenciesMerge(left, right)

\* Plan::dependencies
RECURSIVE PlanDependencies(_)
RECURSIVE UnionDependencies(_, _)
UnionDependencies(plans, n) ==
    IF n = 0 THEN DependenciesNone
    ELSE DependenciesMerge(UnionDependencies(plans, n - 1), PlanDependencies(plans[n]))

PlanDependencies(p) ==
    CASE p.op \in {"MatchA", "MatchEA", "MatchAV"} -> DependenciesAttribute(p.aid)
      [] p.op = "NameExpr" -> DependenciesName(p.aid)
      [] p.op \in {"Project", "Negate"} -> PlanDependencies(p.kids[1])
      [] p.op = "Union" -> UnionDependencies(p.kids, Len(p.kids))
      [] p.op = "Join" ->
            JoinDependencies(PlanDependencies(p.kids[1]), PlanDependencies(p.kids[2]))

\* What implement asks the context and the local arrangements for, as a pair
\* of sets like Dependencies. A consumer that materialises an attribute
\* carrier looks its attribute up.
MaterialiseLookups(rel) ==
    IF rel.status = "ok" /\ rel.kind = "Attribute"
    THEN DependenciesAttribute(rel.attr) ELSE DependenciesNone

\* The lookups of Join's dispatch on two compiled children.
JoinLookups(c, T, left, right) ==
    IF left.kind = "Attribute" /\ right.kind = "Attribute"
    THEN IF Len(T) # 1 \/ ~InSeq(left.variables, T[1]) THEN DependenciesNone
         ELSE IF AttributeSide(c, T[1], left).status = "abort"
                   \/ ~InSeq(right.variables, T[1])
         THEN DependenciesAttribute(left.attr)
         ELSE DependenciesMerge(DependenciesAttribute(left.attr),
                                DependenciesAttribute(right.attr))
    ELSE DependenciesMerge(MaterialiseLookups(left), MaterialiseLookups(right))

RECURSIVE Lookups(_, _)
RECURSIVE UnionLookups(_, _, _, _)
UnionLookups(plans, T, c, n) ==
    IF n = 0 THEN DependenciesNone
    ELSE IF UnionStreams(c, T, plans, n - 1).status = "abort"
    THEN UnionLookups(plans, T, c, n - 1)
    ELSE DependenciesMerge(
           UnionLookups(plans, T, c, n - 1),
           DependenciesMerge(Lookups(plans[n], c),
                             MaterialiseLookups(Implement(plans[n], c))))

Lookups(p, c) ==
    CASE p.op = "MatchA" -> DependenciesNone
      [] p.op \in {"MatchEA", "MatchAV"} -> DependenciesAttribute(p.aid)
      [] p.op = "NameExpr" -> DependenciesName(p.aid)
      [] p.op \in {"Project", "Negate"} ->
            DependenciesMerge(Lookups(p.kids[1], c),
                              MaterialiseLookups(Implement(p.kids[1], c)))
      [] p.op = "Union" -> UnionLookups(p.kids, p.vars, c, Len(p.kids))
      [] p.op = "Join" ->
            IF p.vars = <<>> THEN DependenciesNone
            ELSE LET left == Implement(p.kids[1], c)
                     right == Implement(p.kids[2], c)
                 IN IF left.status = "abort" THEN Lookups(p.kids[1], c)
                    ELSE IF right.status = "abort"
                    THEN DependenciesMerge(Lookups(p.kids[1], c), Lookups(p.kids[2], c))
                    ELSE DependenciesMerge(
                           DependenciesMerge(Lookups(p.kids[1], c), Lookups(p.kids[2], c)),
                           JoinLookups(c, p.vars, left, right))

Threads == {1, 2}

\* The counter after the addition is returned instead of the one before it.
FetchAddReturnsNew(c) == [value |-> (c + 1) % Word, result |-> (c + 1) % Word]

\* AtomicUsize::fetch_add(1) and fetch_sub(1) wrap around on overflow; each
\* returns the previous value.
FetchAdd(c) == [value |-> (c + 1) % Word, result |-> c]

FetchSub(c) == [value |-> (c + Word - 1) % Word, result |-> c]

\* The casts of the counter's value to Eid and to Var keep the word's bits.
AsEid(x) == x % Word

AsVar(x) == x % Word

\* The variables a user has drawn: 0 upward.
UserVars == 0..(issued.user - 1)

InitIds ==
    /\ InitCardVars
    /\ InitPlanIdle
    /\ InitCsvIdle
    /\ ID = IdInit
    /\ SYM = SymInit
    /\ issued = IdleIssued

\* next_id(): one atomic fetch_add; the call returns the previous value.
next_id(p) ==
    /\ Len(issued.ids) <= Word
    /\ ID' = FetchAdd(ID).value
    /\ issued' = [issued EXCEPT !.ids = Append(@, AsEid(FetchAdd(ID).result)),
                                !.idWrapped = @ \/ (ID + 1 >= Word),
                                !.caller = p]
    /\ UNCHANGED <<SYM, cardVars, planVars, csvVars>>

\* gensym(): one atomic fetch_sub; the call returns the previous value.
gensym(p) ==
    /\ Len(issued.syms) <= Word
    /\ SYM' = FetchSub(SYM).value
    /\ issued' = [issued EXCEPT !.syms = Append(@, AsVar(FetchSub(SYM).result)),
                                !.symWrapped = @ \/ (SYM - 1 < 0),
                                !.caller = p]
    /\ UNCHANGED <<ID, cardVars, planVars, csvVars>>

\* A user names one more variable of a query: the next one from 0 upward.
UserVar ==
    /\ issued.user < Word
    /\ issued' = [issued EXCEPT !.user = @ + 1, !.caller = 0]
    /\ UNCHANGED <<ID, SYM, cardVars, planVars, csvVars>>

NextIds ==
    \/ \E p \in Threads : next_id(p)
    \/ \E p \in Threads : gensym(p)
    \/ UserVar

SpecIds == InitIds /\ [][NextIds]_vars

(***************************************************************************)
(* Claims about next_id and gensym                                         *)
(***************************************************************************)
NoWrap == ~issued.idWrapped /\ ~issued.symWrapped

\* The results of next_id are 0, 1, 2, ... in call order.
IdsFromZero ==
    \A i \in 1..Len(issued.ids) : issued.ids[i] = i - 1

\* The results of gensym start at the top of the word and strictly decrease.
SymsFromTop ==
    /\ Len(issued.syms) > 0 => issued.syms[1] = Word - 1
    /\ \A i, j \in 1..Len(issued.syms) : i < j => issued.syms[i] > issued.syms[j]

GensymCollides == \E i \in 1..Len(issued.syms) : issued.syms[i] \in UserVars

Fuel == 256

\* The files read have at most SmallFile records, or at least Fuel - 1 and at
\* most MaxRecords: the sizes around the fuel of one activation.
SmallFile == 2
MaxRecords == 258
MaxWorkers == 2
MaxSchema == 2
\* How often a source is invoked again after it has dropped its capability.
MaxLate == 1

FileSizes == {n \in 0..MaxRecords : n <= SmallFile \/ n >= Fuel - 1}

Workers == 0..(file.peers - 1)

\* The state the closure captures, for the worker that builds it: the reader
\* has handed out `reader` records, is_done() is `done`, `cap` is whether the
\* capability is still held; `out` is what the sessions were given, as pairs
\* (name_idx, index of the record in the file).
SourceInit ==
    [reader |-> 0, done |-> FALSE, cap |-> TRUE, datum_index |-> 0,
     num_datums_read |-> 0, out |-> <<>>, activated |-> TRUE,
     panicked |-> FALSE, late |-> 0]

\* session.give((name_idx, ((eid, v), time, 1))) for every entry of the schema.
GiveRecord(out, record) ==
    out \o [k \in 1..file.schema |-> <<k - 1, record>>]

\* The body of the loop for a record that passed the fuel test.
Datum(st, record, worker_index) ==
    LET mine == st.datum_index % file.peers = worker_index
    IN [st EXCEPT !.out = IF mine THEN GiveRecord(@, record) ELSE @,
                  !.num_datums_read = IF mine THEN @ + 1 ELSE @,
                  !.datum_index = @ + 1]

\* One turn of   while let Some(result) = iterator.next() { fuel -= 1;
\* if fuel <= 0 { break; } .. }   on the loop's state: the closure's state, the
\* fuel left and whether the loop is still running. The reader is done once
\* next() has found no record.
LoopTurn(l, worker_index) ==
    IF ~l.running THEN l
    ELSE IF l.st.reader >= file.records
    THEN [l EXCEPT !.st.done = TRUE, !.running = FALSE]
    ELSE LET taken == [l.st EXCEPT !.reader = @ + 1]
         IN IF l.fuel - 1 <= 0
            THEN [st |-> taken, fuel |-> l.fuel - 1, running |-> FALSE]
            ELSE [st |-> Datum(taken, l.st.reader, worker_index),
                  fuel |-> l.fuel - 1, running |-> TRUE]

\* n turns of the loop, the first half of them and then the rest. The state
\* between two turns and the number of turns are bound by a set constructor,
\* which makes each a value computed once.
RECURSIVE LoopTurns(_, _, _)
RECURSIVE LoopRest(_, _, _)
LoopTurns(l, n, worker_index) ==
    CHOOSE r \in {IF m = 0 THEN x
                  ELSE IF m = 1 THEN LoopTurn(x, worker_index)
                  ELSE LoopRest(LoopTurns(x, m \div 2, worker_index),
                                m - (m \div 2), worker_index) :
                  x \in {l}, m \in {n}} : TRUE

\* The turns after the first half: none if the loop has been left.
LoopRest(half, n, worker_index) ==
    CHOOSE r \in {IF h.running THEN LoopTurns(h, n, worker_index) ELSE h :
                  h \in {half}} : TRUE

\* The loop runs until next() finds no record or the fuel is used up, which
\* takes at most fuel + 1 turns.
ReadLoop(st, fuel, worker_index) ==
    LoopTurns([st |-> st, fuel |-> fuel, running |-> TRUE], fuel + 1, worker_index).st

\* The activation ends without asking for another one.
FinishNoReactivate(st) ==
    IF st.done
    THEN [st EXCEPT !.cap = FALSE]
    ELSE st

\* After the loop: drop the capability if the reader is done, else
\* activator.activate().
Finish(st) ==
    IF st.done
    THEN [st EXCEPT !.cap = FALSE]
    ELSE [st EXCEPT !.activated = TRUE]

\* One invocation of the closure. cap.as_ref().unwrap() panics on None.
Closure(st, worker_index) ==
    IF st.done
    THEN [st EXCEPT !.cap = FALSE]
    ELSE IF ~st.cap
         THEN [st EXCEPT !.panicked = TRUE]
         ELSE CHOOSE r \in {Finish(read) : read \in {ReadLoop(st, Fuel, worker_index)}} : TRUE

InitCsv ==
    /\ InitCardVars
    /\ InitPlanIdle
    /\ InitIdsIdle
    /\ \E n \in FileSizes, w \in 1..MaxWorkers, k \in 1..MaxSchema :
          file = [records |-> n, peers |-> w, schema |-> k]
    /\ source = [w \in Workers |-> SourceInit]

\* The worker runs the operator because it was activated.
Activate(w) ==
    /\ w \in DOMAIN source
    /\ source[w].activated
    /\ ~source[w].panicked
    /\ source' = [source EXCEPT ![w] = Closure([@ EXCEPT !.activated = FALSE], w)]
    /\ UNCHANGED <<file, cardVars, planVars, idVars>>

\* The worker runs the operator although it asked for no activation.
Reschedule(w) ==
    /\ w \in DOMAIN source
    /\ ~source[w].activated
    /\ ~source[w].panicked
    /\ source[w].late < MaxLate
    /\ source' = [source EXCEPT ![w] = Closure([@ EXCEPT !.late = @ + 1], w)]
    /\ UNCHANGED <<file, cardVars, planVars, idVars>>

NextCsv ==
    \/ \E w \in 0..(MaxWorkers - 1) : Activate(w)
    \/ \E w \in 0..(MaxWorkers - 1) : Reschedule(w)

SpecCsv == InitCsv /\ [][NextCsv]_vars

\* A requested activation is eventually run by the worker's scheduler.
SpecCsvFair ==
    SpecCsv /\ \A w \in 0..(MaxWorkers - 1) : WF_vars(Activate(w))

(***************************************************************************)
(* Claims about CsvFile::source                                            *)
(***************************************************************************)
AllDropped == file.peers > 0 /\ \A w \in Workers : ~source[w].cap

Given(w) == {source[w].out[j] : j \in 1..Len(source[w].out)}

\* What worker w has to emit: every record whose index is w modulo the number
\* of workers, once per schema entry.
Slice(w) ==
    {<<k, i>> : k \in 0..(file.schema - 1),
                i \in {r \in 0..(file.records - 1) : r % file.peers = w}}

\* C22: once every worker is through the file, the record with index i has
\* been emitted by the worker i mod W and by no other, once per schema entry:
\* none is skipped and none is emitted twice.
C22_PartitionWithoutLoss ==
    AllDropped =>
        \A w \in Workers :
            /\ Given(w) = Slice(w)
            /\ Len(source[w].out) = Cardinality(Given(w))

\* What one invocation of worker w's closure may do.
ActivationOk(w) ==
    LET a == source[w]
        b == source'[w]
    IN a # b =>
        /\ b.reader - a.reader <= Fuel
        /\ ~b.done => b.activated
        /\ (a.cap /\ ~b.cap) => (b.done /\ b.reader = file.records)
        /\ ~a.cap => (b.out = a.out /\ ~b.cap /\ ~b.panicked)

\* No unwrap of a dropped capability; a dropped capability means the reader
\* is exhausted.
DroppedOk ==
    \A w \in Workers :
        /\ ~source[w].panicked
        /\ ~source[w].cap => (source[w].done /\ source[w].reader = file.records)

\* C25: an activation takes at most 256 records from the reader; one that ends
\* before the reader is exhausted has asked for its re-activation; the
\* capability is dropped only once the reader is exhausted, eventually it is
\* dropped for good by every worker, and an invocation after the drop emits
\* nothing and does not unwrap the capability.
C25_FuelAndTermination ==
    /\ [][\A w \in Workers : ActivationOk(w)]_vars
    /\ []DroppedOk
    /\ <>[]AllDropped

\* A file that needed a second activation has been read to its end, the
\* capability is dropped and the closure has been invoked once more.
C25_Witness ==
    /\ file.records >= Fuel
    /\ AllDropped
    /\ \E w \in Workers :
          /\ source[w].late = 1
          /\ source[w].reader = file.records
          /\ source[w].out # <<>>

(***************************************************************************)
(* More claims about cardinality_one                                       *)
(***************************************************************************)
\* C23: the fold of an update (e, v_new, t, diff) on the state s of e: with s
\* None and diff > 0 it emits +(e, v_new) and stores v_new; with s Some(v_old)
\* and diff > 0 it emits -(e, v_old), +(e, v_new) and stores v_new; with s
\* Some(v_old) and diff <= 0 it emits -(e, v_old), whichever value the update
\* names, and removes the state. Every emitted diff is +1 or -1, all at t,
\* and the state of every other entity is unchanged.
C23_TransitionFunction ==
    [][IF queue = <<>> THEN TRUE
       ELSE StateMachine =>
          LET u == Head(queue)
              s == states[u.e]
          IN /\ (s = None /\ u.d > 0) =>
                   /\ lastOut' = <<Emit(u.e, u.v, u.t, 1)>>
                   /\ states'[u.e] = u.v
             /\ (s # None /\ u.d > 0) =>
                   /\ lastOut' = <<Emit(u.e, s, u.t, -1), Emit(u.e, u.v, u.t, 1)>>
                   /\ states'[u.e] = u.v
             /\ (s # None /\ u.d <= 0) =>
                   /\ lastOut' = <<Emit(u.e, s, u.t, -1)>>
                   /\ states'[u.e] = None
             /\ \A i \in 1..Len(lastOut') :
                   lastOut'[i].d \in {1, -1} /\ lastOut'[i].t = u.t
             /\ \A e \in Ent \ {u.e} : states'[e] = states[e]]_vars

\* A retraction that names another value than the stored one has retracted
\* the stored one and cleared the state.
C23_Witness ==
    /\ lastIn.d < 0
    /\ Len(lastOut) = 1
    /\ lastOut[1].d = -1
    /\ lastOut[1].e = lastIn.e
    /\ lastOut[1].v # lastIn.v
    /\ states[lastIn.e] = None
    /\ ~aborted

\* The state machine run over the records q from the per-key states st.
RECURSIVE RunFold(_, _)
RunFold(st, q) ==
    IF q = <<>> THEN [states |-> st, aborted |-> FALSE]
    ELSE LET u == Head(q)
             r == Fold(u.e, u.v, u.t, u.d, st[u.e])
         IN IF r.abort THEN [states |-> st, aborted |-> TRUE]
            ELSE RunFold([st EXCEPT ![u.e] = IF r.remove THEN None ELSE r.v], Tail(q))

\* The records the closure has just handed on.
Handed == SubSeq(queue', Len(queue) + 1, Len(queue'))

\* Among the records q of entity e, the value of one with the greatest time,
\* the greatest of these values.
LatestValue(q, e) ==
    LET I == {i \in 1..Len(q) : q[i].e = e}
        last == CHOOSE i \in I : \A j \in I :
                    q[j].t < q[i].t \/ (q[j].t = q[i].t /\ q[j].v <= q[i].v)
    IN q[last].v

\* C24: the triples of one batch reach the state machine, per key, in
\* non-decreasing time order, those of equal time in the value order of the
\* cursor; so after a batch whose updates of a key are all positive the state
\* of the key is the value with the greatest time in the batch.
C24_IntraBatchOrdering ==
    [][nupd' > nupd =>
          /\ \A i, j \in 1..Len(Handed) :
                (i < j /\ Handed[i].e = Handed[j].e) =>
                    \/ Handed[i].t < Handed[j].t
                    \/ Handed[i].t = Handed[j].t /\ Handed[i].v < Handed[j].v
          /\ \A e \in Ent :
                ( /\ \E i \in 1..Len(Handed) : Handed[i].e = e
                  /\ \A i \in 1..Len(Handed) : Handed[i].e = e => Handed[i].d > 0
                  /\ ~RunFold(states, queue').aborted )
                => RunFold(states, queue').states[e] = LatestValue(Handed, e)]_vars

\* One batch holds two insertions for an entity, the greater value at the
\* earlier time, and an insertion for another entity at that earlier time
\* behind them: the entity's records are in time order, against value order.
C24_Witness ==
    /\ lastIn = NoUpdate
    /\ Len(queue) = 3
    /\ \A i \in 1..3 : queue[i].d > 0
    /\ queue[1].e = queue[2].e
    /\ queue[1].t < queue[2].t
    /\ queue[1].v > queue[2].v
    /\ queue[3].e # queue[1].e
    /\ queue[3].t = queue[1].t

(***************************************************************************)
(* cardinality_one on the history of one entity                            *)
(***************************************************************************)
\* The longest input history of the entity.
MaxHistory == 4

InitHistory ==
    /\ InitCardState
    /\ feed = [keys |-> {1}, updates |-> MaxHistory]
    /\ InitPlanIdle
    /\ InitIdsIdle
    /\ InitCsvIdle

SpecHistory == InitHistory /\ [][NextCard]_vars

\* C26: as long as every retraction folded was preceded by the insertions it
\* takes back, i.e. no pair's accumulated input multiplicity has been
\* negative, the assert of the fold has not failed.
C26_NoAbortOnConsistentInput == gOk => ~aborted

====
